---- MODULE Spec2Model ----
(***************************************************************************)
(* The multithreaded web crawler of                                        *)
(* src/applications/web_crawler/glib_web_crawler.c as a state machine:     *)
(* the main thread (main, start_crawler: seeding, the dispatch loop, the   *)
(* pool's join and the teardown) and the pool's worker threads (fetch_url, *)
(* extract_urls, resolve_url), interleaved step by step.                   *)
(*                                                                         *)
(* A C string is a pair <<authority, path>>: "https://e" is <<"e", "">>,   *)
(* "https://e/about" is <<"e", "/about">>, the relative reference "/about" *)
(* is <<"", "/about">>, and the command-line word "2" is <<"#", "2">>.     *)
(*                                                                         *)
(* A second program, src/gmutex_example/gmutex_example.c, follows the      *)
(* crawler: two threads incrementing shared_counter under a GMutex.  Its   *)
(* variables rest at their initial values while the crawler runs, and the  *)
(* crawler's while it runs (MutexSpec).                                    *)
(***************************************************************************)
EXTENDS Integers, Sequences, FiniteSets, TLC

\* ------------------------------------------------------------------ bounds

\* The number of operating-system threads the model lets the pool run at once.
MaxWorkers == 2

\* The number of increments each thread of the mutex example makes (100000 in
\* the source, line 50).
Iterations == 2

\* ------------------------------------------------------- program constants

max_depth == 3

DefaultThreads == 5

SOUP_STATUS_OK == 200

\* ----------------------------------------------------------------- strings

NULL == <<"NULL", "">>

NoThread == 0

MainThread == MaxWorkers + 1

NoItem == [id |-> 0, url |-> NULL, depth |-> 0]

\* The words of the command lines explored.
E == <<"e", "">>
D == <<"d", "/">>
A == <<"a", "/">>
B == <<"b", "/">>
F == <<"f", "/">>
G == <<"g", "/">>
M == <<"m", "/">>
N == <<"n", "/">>
X == <<"x", "/">>
Num(d) == <<"#", d>>

\* atoi: the value of a leading decimal number, 0 for a word without one.
Atoi(s) ==
  IF s[1] = "#"
  THEN CASE s[2] = "0" -> 0
         [] s[2] = "1" -> 1
         [] s[2] = "2" -> 2
         [] s[2] = "3" -> 3
         [] s[2] = "-1" -> 0 - 1
         [] s[2] = "-2" -> 0 - 2
         [] OTHER -> 0
  ELSE 0

\* The command lines (argv[1..argc-1]) the runs start from.
ArgvSet ==
  { << >>,
    <<E>>,
    <<E, Num("2")>>,
    <<D, Num("1")>>,
    <<D, Num("2")>>,
    <<A, B, Num("2")>>,
    <<A, B, G, Num("3")>>,
    <<F, A, Num("2")>>,
    <<M, Num("1")>>,
    <<N, Num("1")>>,
    <<D, X, Num("2")>>,
    <<M, A, Num("2")>>,
    <<A, A, Num("2")>>,
    <<A, Num("0")>>,
    <<A, Num("-1")>>,
    <<A, Num("-2")>>,
    <<A, B>> }

\* ------------------------------------------------------------- the network

\* soup_uri_new: the parsed URI of an absolute URL string, NULL when the
\* string has no scheme and authority or a port that is not a number.  An
\* http URI with an empty path gets the path "/".
NULL_URI == [host |-> "NULL", path |-> ""]

soup_uri_new(s) ==
  IF s[1] \in {"", "#", "NULL", "m:abc"}
  THEN NULL_URI
  ELSE [host |-> s[1], path |-> IF s[2] = "" THEN "/" ELSE s[2]]

\* soup_uri_new_with_base: an absolute reference is parsed on its own, an
\* absolute-path reference takes the authority of the base, an empty
\* reference is the base; a relative reference has no meaning without a base.
soup_uri_new_with_base(base, ref) ==
  IF ref[1] = ""
  THEN IF base = NULL_URI
       THEN NULL_URI
       ELSE [host |-> base.host, path |-> IF ref[2] = "" THEN base.path ELSE ref[2]]
  ELSE soup_uri_new(ref)

\* soup_uri_to_string: NULL for a NULL URI (g_return_val_if_fail).
soup_uri_to_string(uri) == IF uri = NULL_URI THEN NULL ELSE <<uri.host, uri.path>>

\* resolve_url: the base and the reference parsed, the result printed.
resolve_url(base_url, relative_url) ==
  soup_uri_to_string(soup_uri_new_with_base(soup_uri_new(base_url), relative_url))

\* The href values of the page a server returns for a URI, in document order
\* (what the regular expression of extract_urls matches).
Hrefs(uri) ==
  CASE uri = [host |-> "e", path |-> "/"] -> << <<"", "/about">>, <<"e", "">> >>
    [] uri = [host |-> "d", path |-> "/"] -> << <<"", "/1">> >>
    [] uri = [host |-> "d", path |-> "/1"] -> << <<"", "/2">> >>
    [] uri = [host |-> "d", path |-> "/2"] -> << <<"", "/3">> >>
    [] uri = [host |-> "d", path |-> "/3"] -> << <<"", "/4">> >>
    [] uri = [host |-> "a", path |-> "/"] -> << <<"c", "/">> >>
    [] uri = [host |-> "b", path |-> "/"] -> << <<"c", "/">> >>
    [] uri = [host |-> "g", path |-> "/"] -> << <<"c", "/">> >>
    [] uri = [host |-> "m", path |-> "/"] -> << <<"m:abc", "/">>, <<"", "/x">> >>
    [] uri = [host |-> "n", path |-> "/"] -> << <<"", "/y">> >>
    [] uri = [host |-> "x", path |-> "/"] -> << <<"d", "/2">> >>
    [] OTHER -> << >>

\* The status code soup_session_send_message leaves in the message: 404 from
\* host f, 203 (with a body) from host n, 200 from every other.
StatusOf(uri) ==
  CASE uri = [host |-> "f", path |-> "/"] -> 404
    [] uri = [host |-> "n", path |-> "/"] -> 203
    [] OTHER -> SOUP_STATUS_OK

\* ------------------------------------------------------------------- state

VARIABLES
  argv,          \* the command line, argv[1..argc-1]
  pc,            \* the main thread's position
  thread_count,  \* main's thread_count
  start_urls,    \* main's NULL-terminated array, without the NULL
  i,             \* start_crawler's seeding index (1-based)
  url_queue,     \* GQueue of UrlItem
  visited_urls,  \* GHashTable used as a set of strings
  queue_mutex,   \* the thread holding queue_mutex, or NoThread
  thread_pool,   \* "none", "running", "null" (g_thread_pool_new failed), "freed"
  pool_queue,    \* the tasks pushed to the pool and not yet taken by a thread
  item,          \* the dispatcher's popped item
  wk,            \* per worker thread: position and locals of fetch_url/extract_urls
  next_id,       \* the next UrlItem allocation
  frontier,      \* "none", "live", "freed": url_queue, visited_urls and the mutex
  crashed,       \* the process died on a NULL dereference (every pc is "crashed")
  pushed,        \* history: the items pushed onto url_queue, in order
  handed,        \* history: the items given to g_thread_pool_push, in order
  fetched,       \* history: the items fetch_url was called with, in order
  saved,         \* history: the URLs save_to_file was called with
  failed         \* history: the URLs whose fetch was reported as failed

\* The mutex example.
VARIABLES
  gm_argv,        \* its command line, argv[1..argc-1]
  gm_pc,          \* its main thread's position
  use_mutex,      \* gboolean use_mutex
  mutex,          \* the thread holding mutex, or NoThread
  shared_counter, \* gint shared_counter
  th,             \* per thread of increment_counter: position, i, the value
                  \* read by shared_counter++, the value printed last
  final           \* the count main printed, or NoCount

crawler_vars ==
  <<argv, pc, thread_count, start_urls, i, url_queue, visited_urls, queue_mutex,
    thread_pool, pool_queue, item, wk, next_id, frontier, crashed, pushed,
    handed, fetched, saved, failed>>

gmutex_vars == <<gm_argv, gm_pc, use_mutex, mutex, shared_counter, th, final>>

vars == <<crawler_vars, gmutex_vars>>

Threads == 1..MaxWorkers

IdleWorker == [pc |-> "idle", item |-> NoItem, links |-> << >>, absolute_url |-> NULL]

\* The crawler before main runs.
CrawlerStart ==
  /\ pc = "main"
  /\ thread_count = 0
  /\ start_urls = << >>
  /\ i = 1
  /\ url_queue = << >>
  /\ visited_urls = {}
  /\ queue_mutex = NoThread
  /\ thread_pool = "none"
  /\ pool_queue = << >>
  /\ item = NoItem
  /\ wk = [w \in Threads |-> IdleWorker]
  /\ next_id = 1
  /\ frontier = "none"
  /\ crashed = FALSE
  /\ pushed = << >>
  /\ handed = << >>
  /\ fetched = << >>
  /\ saved = << >>
  /\ failed = << >>

GThreads == {1, 2}

NoCount == 0 - 1

UnbornThread == [pc |-> "unborn", i |-> 0, tmp |-> 0, shown |-> 0]

\* The mutex example before main runs: the file-scope initialisers.
GMutexStart ==
  /\ gm_pc = "main"
  /\ use_mutex = TRUE
  /\ mutex = NoThread
  /\ shared_counter = 0
  /\ th = [t \in GThreads |-> UnbornThread]
  /\ final = NoCount

Init ==
  /\ argv \in ArgvSet
  /\ CrawlerStart
  /\ gm_argv = << >>
  /\ GMutexStart

\* ------------------------------------------------------------- main thread

\* main, argc < 2: the usage message and return 1.
Usage ==
  /\ pc = "main"
  /\ Len(argv) + 1 < 2
  /\ pc' = "exit"
  /\ UNCHANGED <<gmutex_vars, argv, thread_count, start_urls, i, url_queue, visited_urls,
                 queue_mutex, thread_pool, pool_queue, item, wk, next_id,
                 frontier, crashed, pushed, handed, fetched, saved, failed>>

\* main's thread_count: the last word when argc > 2, else 5.
ParseThreadCount(args) ==
  IF Len(args) + 1 > 2 THEN Atoi(args[Len(args)]) ELSE DefaultThreads

\* main's start_urls: argv[1] .. argv[argc - 2].
ParseStartUrls(args) == SubSeq(args, 1, Len(args) - 1)

\* main up to the call of start_crawler, and start_crawler's three creations.
Main ==
  /\ pc = "main"
  /\ Len(argv) + 1 >= 2
  /\ thread_count' = ParseThreadCount(argv)
  /\ start_urls' = ParseStartUrls(argv)
  /\ url_queue' = << >>
  /\ visited_urls' = {}
  /\ queue_mutex' = NoThread
  /\ frontier' = "live"
  /\ i' = 1
  /\ pc' = "seed"
  /\ UNCHANGED <<gmutex_vars, argv, thread_pool, pool_queue, item, wk, next_id, crashed,
                 pushed, handed, fetched, saved, failed>>

\* g_new(UrlItem, 1) and its two assignments.
NewItem(id, url, depth) == [id |-> id, url |-> url, depth |-> depth]

\* One iteration of the seeding loop: lock, add to visited_urls, push, unlock.
Seed ==
  /\ pc = "seed"
  /\ i <= Len(start_urls)
  /\ queue_mutex = NoThread
  /\ visited_urls' = visited_urls \cup {start_urls[i]}
  /\ url_queue' = Append(url_queue, NewItem(next_id, start_urls[i], 0))
  /\ pushed' = Append(pushed, NewItem(next_id, start_urls[i], 0))
  /\ next_id' = next_id + 1
  /\ i' = i + 1
  /\ UNCHANGED <<gmutex_vars, argv, pc, thread_count, start_urls, queue_mutex, thread_pool,
                 pool_queue, item, wk, frontier, crashed, handed, fetched,
                 saved, failed>>

\* g_thread_pool_new: NULL (g_return_val_if_fail) for max_threads < -1.
PoolNew ==
  /\ pc = "seed"
  /\ i > Len(start_urls)
  /\ thread_pool' = IF thread_count >= 0 - 1 THEN "running" ELSE "null"
  /\ pc' = "test"
  /\ UNCHANGED <<gmutex_vars, argv, thread_count, start_urls, i, url_queue, visited_urls,
                 queue_mutex, pool_queue, item, wk, next_id, frontier, crashed,
                 pushed, handed, fetched, saved, failed>>

IsEmptyOutcomes_AnyValue == {TRUE, FALSE}

\* What the unlocked g_queue_is_empty may return: the head pointer as it is,
\* or, while a worker inside its critical section is writing the head of the
\* empty queue, either value.
IsEmptyOutcomes ==
  IF url_queue = << >> /\ \E w \in Threads : wk[w].pc = "add"
  THEN {TRUE, FALSE}
  ELSE {url_queue = << >>}

\* while (!g_queue_is_empty(url_queue)): the loop is entered.
TestNonEmpty ==
  /\ pc = "test"
  /\ FALSE \in IsEmptyOutcomes
  /\ pc' = "dlock"
  /\ UNCHANGED <<gmutex_vars, argv, thread_count, start_urls, i, url_queue, visited_urls,
                 queue_mutex, thread_pool, pool_queue, item, wk, next_id,
                 frontier, crashed, pushed, handed, fetched, saved, failed>>

\* while (!g_queue_is_empty(url_queue)): the loop is left.
TestEmpty ==
  /\ pc = "test"
  /\ TRUE \in IsEmptyOutcomes
  /\ pc' = "pool_free"
  /\ UNCHANGED <<gmutex_vars, argv, thread_count, start_urls, i, url_queue, visited_urls,
                 queue_mutex, thread_pool, pool_queue, item, wk, next_id,
                 frontier, crashed, pushed, handed, fetched, saved, failed>>

MutexFree_NoExclusion == TRUE

\* g_mutex_lock returns only when no thread holds the mutex.
MutexFree == queue_mutex = NoThread

DispatchLock ==
  /\ pc = "dlock"
  /\ MutexFree
  /\ queue_mutex' = MainThread
  /\ pc' = "pop"
  /\ UNCHANGED <<gmutex_vars, argv, thread_count, start_urls, i, url_queue, visited_urls,
                 thread_pool, pool_queue, item, wk, next_id, frontier, crashed,
                 pushed, handed, fetched, saved, failed>>

DispatchPop_Tail ==
  /\ pc = "pop"
  /\ item' = IF url_queue = << >> THEN NoItem ELSE url_queue[Len(url_queue)]
  /\ url_queue' = IF url_queue = << >> THEN << >> ELSE SubSeq(url_queue, 1, Len(url_queue) - 1)
  /\ pc' = "dunlock"
  /\ UNCHANGED <<gmutex_vars, argv, thread_count, start_urls, i, visited_urls, queue_mutex,
                 thread_pool, pool_queue, wk, next_id, frontier, crashed,
                 pushed, handed, fetched, saved, failed>>

\* g_queue_pop_head: the head, or NULL from an empty queue.
DispatchPop ==
  /\ pc = "pop"
  /\ item' = IF url_queue = << >> THEN NoItem ELSE Head(url_queue)
  /\ url_queue' = IF url_queue = << >> THEN << >> ELSE Tail(url_queue)
  /\ pc' = "dunlock"
  /\ UNCHANGED <<gmutex_vars, argv, thread_count, start_urls, i, visited_urls, queue_mutex,
                 thread_pool, pool_queue, wk, next_id, frontier, crashed,
                 pushed, handed, fetched, saved, failed>>

DispatchUnlock ==
  /\ pc = "dunlock"
  /\ queue_mutex' = NoThread
  /\ pc' = "push"
  /\ UNCHANGED <<gmutex_vars, argv, thread_count, start_urls, i, url_queue, visited_urls,
                 thread_pool, pool_queue, item, wk, next_id, frontier, crashed,
                 pushed, handed, fetched, saved, failed>>

\* g_thread_pool_push: queues the task; does nothing on a NULL pool or NULL data.
PoolPush ==
  /\ pc = "push"
  /\ handed' = Append(handed, item)
  /\ pool_queue' = IF thread_pool = "running" /\ item # NoItem
                   THEN Append(pool_queue, item)
                   ELSE pool_queue
  /\ item' = NoItem
  /\ pc' = "test"
  /\ UNCHANGED <<gmutex_vars, argv, thread_count, start_urls, i, url_queue, visited_urls,
                 queue_mutex, thread_pool, wk, next_id, frontier, crashed,
                 pushed, fetched, saved, failed>>

\* g_thread_pool_free(pool, FALSE, TRUE) returns at once, freeing nothing, on a
\* NULL pool and on a pool of no threads that still holds tasks.
PoolFreeRefused ==
  \/ thread_pool = "null"
  \/ thread_pool = "running" /\ thread_count = 0 /\ pool_queue # << >>

PoolDrained_NoWait == TRUE

\* Otherwise it waits until every task pushed has been processed.
PoolDrained ==
  /\ pool_queue = << >>
  /\ \A w \in Threads : wk[w].pc = "idle"

PoolFree ==
  /\ pc = "pool_free"
  /\ \/ PoolFreeRefused /\ thread_pool' = thread_pool
     \/ ~PoolFreeRefused /\ PoolDrained /\ thread_pool' = "freed"
  /\ pc' = "teardown"
  /\ UNCHANGED <<gmutex_vars, argv, thread_count, start_urls, i, url_queue, visited_urls,
                 queue_mutex, pool_queue, item, wk, next_id, frontier, crashed,
                 pushed, handed, fetched, saved, failed>>

\* g_queue_free, g_hash_table_destroy, g_mutex_clear and the return.  The
\* items still in the queue are not freed: url_queue keeps them for inspection.
Teardown ==
  /\ pc = "teardown"
  /\ frontier' = "freed"
  /\ pc' = "returned"
  /\ UNCHANGED <<gmutex_vars, argv, thread_count, start_urls, i, url_queue, visited_urls,
                 queue_mutex, thread_pool, pool_queue, item, wk, next_id,
                 crashed, pushed, handed, fetched, saved, failed>>

Dispatcher ==
  \/ Usage
  \/ Main
  \/ Seed
  \/ PoolNew
  \/ TestNonEmpty
  \/ TestEmpty
  \/ DispatchLock
  \/ DispatchPop
  \/ DispatchUnlock
  \/ PoolPush
  \/ PoolFree
  \/ Teardown

\* ---------------------------------------------------------- worker threads

\* The pool runs a task on a thread while fewer than max_threads are busy
\* (-1: no limit).
Busy == {w \in Threads : wk[w].pc # "idle"}

MayStartThread == thread_count = 0 - 1 \/ Cardinality(Busy) < thread_count

TakeTask_NoDequeue(w) ==
  /\ thread_pool = "running"
  /\ wk[w].pc = "idle"
  /\ pool_queue # << >>
  /\ MayStartThread
  /\ wk' = [wk EXCEPT ![w] = [IdleWorker EXCEPT !.pc = "send", !.item = Head(pool_queue)]]
  /\ pool_queue' = pool_queue
  /\ fetched' = Append(fetched, Head(pool_queue))
  /\ UNCHANGED <<gmutex_vars, argv, pc, thread_count, start_urls, i, url_queue, visited_urls,
                 queue_mutex, thread_pool, item, next_id, frontier, crashed,
                 pushed, handed, saved, failed>>

\* A pool thread takes the next task and calls fetch_url with it, up to the
\* blocking soup_session_send_message.
TakeTask(w) ==
  /\ thread_pool = "running"
  /\ wk[w].pc = "idle"
  /\ pool_queue # << >>
  /\ MayStartThread
  /\ wk' = [wk EXCEPT ![w] = [IdleWorker EXCEPT !.pc = "send", !.item = Head(pool_queue)]]
  /\ pool_queue' = Tail(pool_queue)
  /\ fetched' = Append(fetched, Head(pool_queue))
  /\ UNCHANGED <<gmutex_vars, argv, pc, thread_count, start_urls, i, url_queue, visited_urls,
                 queue_mutex, thread_pool, item, next_id, frontier, crashed,
                 pushed, handed, saved, failed>>

DepthLimitReached_OffByOne(depth) == depth > max_depth

DepthLimitReached_Never(depth) == FALSE

\* extract_urls' first line: nothing is extracted from a page at max_depth.
DepthLimitReached(depth) == depth >= max_depth

FetchOk_NoSave(w) ==
  /\ wk[w].pc = "send"
  /\ StatusOf(soup_uri_new(wk[w].item.url)) = SOUP_STATUS_OK
  /\ wk' = [wk EXCEPT ![w].pc = IF DepthLimitReached(wk[w].item.depth)
                                THEN "free" ELSE "match",
                      ![w].links = IF DepthLimitReached(wk[w].item.depth)
                                   THEN << >>
                                   ELSE Hrefs(soup_uri_new(wk[w].item.url))]
  /\ UNCHANGED <<gmutex_vars, argv, pc, thread_count, start_urls, i, url_queue, visited_urls,
                 queue_mutex, thread_pool, pool_queue, item, next_id, frontier,
                 crashed, pushed, handed, fetched, saved, failed>>

\* The send returns SOUP_STATUS_OK: the body is saved, and extract_urls starts
\* matching unless the depth limit is reached.
FetchOk(w) ==
  /\ wk[w].pc = "send"
  /\ StatusOf(soup_uri_new(wk[w].item.url)) = SOUP_STATUS_OK
  /\ saved' = Append(saved, wk[w].item.url)
  /\ wk' = [wk EXCEPT ![w].pc = IF DepthLimitReached(wk[w].item.depth)
                                THEN "free" ELSE "match",
                      ![w].links = IF DepthLimitReached(wk[w].item.depth)
                                   THEN << >>
                                   ELSE Hrefs(soup_uri_new(wk[w].item.url))]
  /\ UNCHANGED <<gmutex_vars, argv, pc, thread_count, start_urls, i, url_queue, visited_urls,
                 queue_mutex, thread_pool, pool_queue, item, next_id, frontier,
                 crashed, pushed, handed, fetched, failed>>

\* The send returns any other status: the failure is printed.
FetchFail(w) ==
  /\ wk[w].pc = "send"
  /\ StatusOf(soup_uri_new(wk[w].item.url)) # SOUP_STATUS_OK
  /\ failed' = Append(failed, wk[w].item.url)
  /\ wk' = [wk EXCEPT ![w].pc = "free"]
  /\ UNCHANGED <<gmutex_vars, argv, pc, thread_count, start_urls, i, url_queue, visited_urls,
                 queue_mutex, thread_pool, pool_queue, item, next_id, frontier,
                 crashed, pushed, handed, fetched, saved>>

\* while (g_match_info_matches(...)): the next href is fetched and resolved.
Match(w) ==
  /\ wk[w].pc = "match"
  /\ wk[w].links # << >>
  /\ wk' = [wk EXCEPT ![w].pc = "lock",
                      ![w].absolute_url = resolve_url(wk[w].item.url, Head(wk[w].links))]
  /\ UNCHANGED <<gmutex_vars, argv, pc, thread_count, start_urls, i, url_queue, visited_urls,
                 queue_mutex, thread_pool, pool_queue, item, next_id, frontier,
                 crashed, pushed, handed, fetched, saved, failed>>

\* No match is left: extract_urls returns to fetch_url.
MatchEnd(w) ==
  /\ wk[w].pc = "match"
  /\ wk[w].links = << >>
  /\ wk' = [wk EXCEPT ![w].pc = "free"]
  /\ UNCHANGED <<gmutex_vars, argv, pc, thread_count, start_urls, i, url_queue, visited_urls,
                 queue_mutex, thread_pool, pool_queue, item, next_id, frontier,
                 crashed, pushed, handed, fetched, saved, failed>>

Lock(w) ==
  /\ wk[w].pc = "lock"
  /\ MutexFree
  /\ queue_mutex' = w
  /\ wk' = [wk EXCEPT ![w].pc = "check"]
  /\ UNCHANGED <<gmutex_vars, argv, pc, thread_count, start_urls, i, url_queue, visited_urls,
                 thread_pool, pool_queue, item, next_id, frontier, crashed,
                 pushed, handed, fetched, saved, failed>>

Contains_AlwaysAbsent(w) ==
  /\ wk[w].pc = "check"
  /\ wk[w].absolute_url # NULL
  /\ wk' = [wk EXCEPT ![w].pc = "add"]
  /\ UNCHANGED <<gmutex_vars, argv, pc, thread_count, start_urls, i, url_queue, visited_urls,
                 queue_mutex, thread_pool, pool_queue, item, next_id, frontier,
                 crashed, pushed, handed, fetched, saved, failed>>

\* g_hash_table_contains on a string.
Contains(w) ==
  /\ wk[w].pc = "check"
  /\ wk[w].absolute_url # NULL
  /\ wk' = [wk EXCEPT ![w].pc = IF wk[w].absolute_url \in visited_urls
                                THEN "unlock" ELSE "add"]
  /\ UNCHANGED <<gmutex_vars, argv, pc, thread_count, start_urls, i, url_queue, visited_urls,
                 queue_mutex, thread_pool, pool_queue, item, next_id, frontier,
                 crashed, pushed, handed, fetched, saved, failed>>

\* g_hash_table_contains on NULL: g_str_hash reads through the NULL pointer.
\* The read either kills the process, the mutex still held, or returns
\* something and the lookup goes on as if the key were present.
ContainsNull(w) ==
  /\ wk[w].pc = "check"
  /\ wk[w].absolute_url = NULL
  /\ \/ /\ crashed' = TRUE
        /\ pc' = "crashed"
        /\ wk' = [v \in Threads |-> [wk[v] EXCEPT !.pc = "crashed"]]
     \/ /\ crashed' = FALSE
        /\ pc' = pc
        /\ wk' = [wk EXCEPT ![w].pc = "unlock"]
  /\ UNCHANGED <<gmutex_vars, argv, thread_count, start_urls, i, url_queue, visited_urls,
                 queue_mutex, thread_pool, pool_queue, item, next_id, frontier,
                 pushed, handed, fetched, saved, failed>>

Add_NoInsert(w) ==
  /\ wk[w].pc = "add"
  /\ url_queue' = Append(url_queue, NewItem(next_id, wk[w].absolute_url, wk[w].item.depth + 1))
  /\ pushed' = Append(pushed, NewItem(next_id, wk[w].absolute_url, wk[w].item.depth + 1))
  /\ next_id' = next_id + 1
  /\ wk' = [wk EXCEPT ![w].pc = "unlock"]
  /\ UNCHANGED <<gmutex_vars, argv, pc, thread_count, start_urls, i, visited_urls, queue_mutex,
                 thread_pool, pool_queue, item, frontier, crashed, handed,
                 fetched, saved, failed>>

\* The new URL is added to visited_urls and pushed at depth + 1.
Add(w) ==
  /\ wk[w].pc = "add"
  /\ visited_urls' = visited_urls \cup {wk[w].absolute_url}
  /\ url_queue' = Append(url_queue, NewItem(next_id, wk[w].absolute_url, wk[w].item.depth + 1))
  /\ pushed' = Append(pushed, NewItem(next_id, wk[w].absolute_url, wk[w].item.depth + 1))
  /\ next_id' = next_id + 1
  /\ wk' = [wk EXCEPT ![w].pc = "unlock"]
  /\ UNCHANGED <<gmutex_vars, argv, pc, thread_count, start_urls, i, queue_mutex, thread_pool,
                 pool_queue, item, frontier, crashed, handed, fetched, saved,
                 failed>>

Unlock_KeepsMutex(w) ==
  /\ wk[w].pc = "unlock"
  /\ wk' = [wk EXCEPT ![w].pc = "match", ![w].links = Tail(wk[w].links),
                      ![w].absolute_url = NULL]
  /\ UNCHANGED <<gmutex_vars, argv, pc, thread_count, start_urls, i, url_queue, visited_urls,
                 queue_mutex, thread_pool, pool_queue, item, next_id, frontier,
                 crashed, pushed, handed, fetched, saved, failed>>

\* g_mutex_unlock, the frees and g_match_info_next.
Unlock(w) ==
  /\ wk[w].pc = "unlock"
  /\ queue_mutex' = NoThread
  /\ wk' = [wk EXCEPT ![w].pc = "match", ![w].links = Tail(wk[w].links),
                      ![w].absolute_url = NULL]
  /\ UNCHANGED <<gmutex_vars, argv, pc, thread_count, start_urls, i, url_queue, visited_urls,
                 thread_pool, pool_queue, item, next_id, frontier, crashed,
                 pushed, handed, fetched, saved, failed>>

\* fetch_url's last lines: the item is freed and the thread is idle again.
Free(w) ==
  /\ wk[w].pc = "free"
  /\ wk' = [wk EXCEPT ![w] = IdleWorker]
  /\ UNCHANGED <<gmutex_vars, argv, pc, thread_count, start_urls, i, url_queue, visited_urls,
                 queue_mutex, thread_pool, pool_queue, item, next_id, frontier,
                 crashed, pushed, handed, fetched, saved, failed>>

Worker(w) ==
  \/ TakeTask(w)
  \/ FetchOk(w)
  \/ FetchFail(w)
  \/ Match(w)
  \/ MatchEnd(w)
  \/ Lock(w)
  \/ Contains(w)
  \/ ContainsNull(w)
  \/ Add(w)
  \/ Unlock(w)
  \/ Free(w)

Next ==
  \/ Usage
  \/ Main
  \/ Seed
  \/ PoolNew
  \/ TestNonEmpty
  \/ TestEmpty
  \/ DispatchLock
  \/ DispatchPop
  \/ DispatchUnlock
  \/ PoolPush
  \/ PoolFree
  \/ Teardown
  \/ \E w \in Threads : TakeTask(w)
  \/ \E w \in Threads : FetchOk(w)
  \/ \E w \in Threads : FetchFail(w)
  \/ \E w \in Threads : Match(w)
  \/ \E w \in Threads : MatchEnd(w)
  \/ \E w \in Threads : Lock(w)
  \/ \E w \in Threads : Contains(w)
  \/ \E w \in Threads : ContainsNull(w)
  \/ \E w \in Threads : Add(w)
  \/ \E w \in Threads : Unlock(w)
  \/ \E w \in Threads : Free(w)

Spec == Init /\ [][Next]_vars

\* Every thread that can run is eventually scheduled.
FairSpec ==
  /\ Spec
  /\ WF_vars(Dispatcher)
  /\ \A w \in Threads : WF_vars(Worker(w))

\* ------------------------------------------------------- the mutex example

\* The command lines tried: none, and "--no-mutex".
NoMutexFlag == <<"--no-mutex", "">>

GArgvSet == {<< >>, <<NoMutexFlag>>}

\* main, lines 69-74: "--no-mutex" as argv[1] clears use_mutex; g_mutex_init.
MutexInit ==
  /\ gm_pc = "main"
  /\ use_mutex' = IF Len(gm_argv) + 1 > 1 /\ gm_argv[1] = NoMutexFlag
                  THEN FALSE
                  ELSE use_mutex
  /\ mutex' = NoThread
  /\ gm_pc' = "new1"
  /\ UNCHANGED <<crawler_vars, gm_argv, shared_counter, th, final>>

\* g_thread_new for thread1, then for thread2: the thread starts at the top
\* of increment_counter with i = 0.
ThreadNew ==
  /\ gm_pc \in {"new1", "new2"}
  /\ th' = [th EXCEPT ![IF gm_pc = "new1" THEN 1 ELSE 2] =
                        [UnbornThread EXCEPT !.pc = "loop"]]
  /\ gm_pc' = IF gm_pc = "new1" THEN "new2" ELSE "join1"
  /\ UNCHANGED <<crawler_vars, gm_argv, use_mutex, mutex, shared_counter, final>>

\* for (...; i < 100000; ...) and the first if (use_mutex).
LoopTest(t) ==
  /\ th[t].pc = "loop"
  /\ th' = [th EXCEPT ![t].pc = IF th[t].i < Iterations
                                 THEN (IF use_mutex THEN "lock" ELSE "load")
                                 ELSE "done"]
  /\ UNCHANGED <<crawler_vars, gm_argv, gm_pc, use_mutex, mutex, shared_counter,
                 final>>

MutexLock_NoExclusion(t) ==
  /\ th[t].pc = "lock"
  /\ mutex' = t
  /\ th' = [th EXCEPT ![t].pc = "load"]
  /\ UNCHANGED <<crawler_vars, gm_argv, gm_pc, use_mutex, shared_counter, final>>

\* g_mutex_lock(&mutex): waits until no thread holds it.
MutexLock(t) ==
  /\ th[t].pc = "lock"
  /\ mutex = NoThread
  /\ mutex' = t
  /\ th' = [th EXCEPT ![t].pc = "load"]
  /\ UNCHANGED <<crawler_vars, gm_argv, gm_pc, use_mutex, shared_counter, final>>

\* shared_counter++ is a read of the gint and a write of the value read plus
\* one (far from the gint's 32-bit limit: the count never passes 200000).
\* Without the mutex the two threads race on it: their reads and writes
\* interleave freely.
Load(t) ==
  /\ th[t].pc = "load"
  /\ th' = [th EXCEPT ![t].tmp = shared_counter, ![t].pc = "store"]
  /\ UNCHANGED <<crawler_vars, gm_argv, gm_pc, use_mutex, mutex, shared_counter,
                 final>>

Store(t) ==
  /\ th[t].pc = "store"
  /\ shared_counter' = th[t].tmp + 1
  /\ th' = [th EXCEPT ![t].pc = "print"]
  /\ UNCHANGED <<crawler_vars, gm_argv, gm_pc, use_mutex, mutex, final>>

\* printf of the counter as it is now, and the second if (use_mutex).
PrintCounter(t) ==
  /\ th[t].pc = "print"
  /\ th' = [th EXCEPT ![t].shown = shared_counter,
                       ![t].pc = IF use_mutex THEN "unlock" ELSE "loop",
                       ![t].i = IF use_mutex THEN th[t].i ELSE th[t].i + 1]
  /\ UNCHANGED <<crawler_vars, gm_argv, gm_pc, use_mutex, mutex, shared_counter,
                 final>>

\* g_mutex_unlock(&mutex) and i++.
MutexUnlock(t) ==
  /\ th[t].pc = "unlock"
  /\ mutex' = NoThread
  /\ th' = [th EXCEPT ![t].pc = "loop", ![t].i = th[t].i + 1]
  /\ UNCHANGED <<crawler_vars, gm_argv, gm_pc, use_mutex, shared_counter, final>>

\* g_thread_join(thread1), then g_thread_join(thread2): each waits for its
\* thread to return from increment_counter.
ThreadJoin ==
  /\ gm_pc \in {"join1", "join2"}
  /\ th[IF gm_pc = "join1" THEN 1 ELSE 2].pc = "done"
  /\ gm_pc' = IF gm_pc = "join1" THEN "join2" ELSE "print"
  /\ UNCHANGED <<crawler_vars, gm_argv, use_mutex, mutex, shared_counter, th,
                 final>>

\* The final printf, g_mutex_clear and return 0.
PrintFinal ==
  /\ gm_pc = "print"
  /\ final' = shared_counter
  /\ gm_pc' = "exit"
  /\ UNCHANGED <<crawler_vars, gm_argv, use_mutex, mutex, shared_counter, th>>

GMutexInit ==
  /\ gm_argv \in GArgvSet
  /\ GMutexStart
  /\ argv = << >>
  /\ CrawlerStart

GMutexNext ==
  \/ MutexInit
  \/ ThreadNew
  \/ \E t \in GThreads : LoopTest(t)
  \/ \E t \in GThreads : MutexLock(t)
  \/ \E t \in GThreads : Load(t)
  \/ \E t \in GThreads : Store(t)
  \/ \E t \in GThreads : PrintCounter(t)
  \/ \E t \in GThreads : MutexUnlock(t)
  \/ ThreadJoin
  \/ PrintFinal

MutexSpec == GMutexInit /\ [][GMutexNext]_vars

\* ------------------------------------------------------------ vocabulary

Range(q) == {q[k] : k \in 1..Len(q)}

UrlsOf(q) == {q[k].url : k \in 1..Len(q)}

\* The number of entries of history q that are item x.
Count(q, x) == Cardinality({k \in 1..Len(q) : q[k].id = x.id})

\* The pages of S whose fetch succeeds.
OkPages(S) == {u \in S : StatusOf(soup_uri_new(u)) = SOUP_STATUS_OK}

\* What resolve_url gives for the links of the successfully fetched pages of S.
Successors(S) ==
  UNION {{resolve_url(u, h) : h \in Range(Hrefs(soup_uri_new(u)))} : u \in OkPages(S)}

\* The URL strings within d hops of the strings S.
RECURSIVE ReachFrom(_, _)
ReachFrom(S, d) ==
  IF d = 0 THEN S ELSE S \cup ReachFrom(S \cup (Successors(S) \ {NULL}), d - 1)

\* Every href on a page within reach of the seeds resolves to a URL.
LinksResolve(S) == NULL \notin Successors(ReachFrom(S, max_depth - 1))

BadSeeds == {u \in Range(start_urls) : StatusOf(soup_uri_new(u)) # SOUP_STATUS_OK}

\* ------------------------------------------------------------------ claims

\* C1: a URL discovered by extract_urls is pushed onto url_queue by exactly one
\* worker: no push by extract_urls repeats the URL of an earlier push, however
\* the workers that discover it interleave.
C1_DiscoveredOnce ==
  \A k, l \in 1..Len(pushed) :
    (k < l /\ pushed[l].depth > 0) => pushed[l].url # pushed[k].url

\* Two workers hold the same resolved URL at once: one has just pushed it and
\* still holds the mutex, the other waits for the mutex.
C1_Witness ==
  \E v, w \in Threads :
    /\ v # w
    /\ wk[v].pc = "unlock"
    /\ wk[w].pc = "lock"
    /\ wk[v].absolute_url = wk[w].absolute_url
    /\ queue_mutex = v
    /\ Len(pushed) > 0
    /\ pushed[Len(pushed)].url = wk[v].absolute_url
    /\ pushed[Len(pushed)].depth > 0

\* C2: start_crawler returns only when url_queue is empty and no worker is
\* still processing a task.
C2_RunEndsExhausted ==
  (pc = "returned" /\ thread_count >= 1) => (url_queue = << >> /\ PoolDrained)

\* C3: every item pushed onto url_queue has been passed to fetch_url exactly
\* once when the run ends.
C3_ConsumedExactlyOnce ==
  (pc = "returned" /\ thread_count >= 1) =>
    \A x \in Range(pushed) : Count(fetched, x) = 1

C5_DepthBounded ==
  \A x \in Range(url_queue) \cup Range(pushed) \cup Range(pool_queue)
           \cup Range(fetched) \cup {wk[w].item : w \in Threads} \cup {item} :
    0 <= x.depth /\ x.depth <= max_depth

\* A page at depth max_depth that has links was fetched and saved, and
\* extract_urls returned without touching the frontier.
C5_Witness ==
  \E w \in Threads :
    /\ wk[w].pc = "free"
    /\ wk[w].item.depth = max_depth
    /\ Hrefs(soup_uri_new(wk[w].item.url)) # << >>
    /\ wk[w].item.url \in Range(saved)
    /\ UrlsOf(pushed) = visited_urls

\* C6: no URL is pushed onto url_queue twice over a whole run, seeds included.
C6_NoUrlEnqueuedTwice ==
  \A k, l \in 1..Len(pushed) : k < l => pushed[l].url # pushed[k].url

\* C7: no link discovered on a page is enqueued when it resolves to the same
\* URL as a seed, and the run seeded with the one URL whose page links to
\* /about and to itself fetches at most two URLs.
C7_SelfLinkNotReenqueued ==
  /\ \A x \in Range(pushed) :
       x.depth > 0 =>
         \A u \in Range(start_urls) : soup_uri_new(x.url) # soup_uri_new(u)
  /\ argv = <<E, Num("2")>> => Cardinality(Range(fetched)) <= 2

\* C8: when a seed's fetch fails, every URL within max_depth of the other
\* seeds has been fetched when the run ends.
C8_FailureIsolation ==
  (pc = "returned" /\ thread_count >= 1 /\ BadSeeds # {}) =>
    ReachFrom(Range(start_urls) \ BadSeeds, max_depth) \subseteq UrlsOf(fetched)

\* C9: the step of a worker whose link did not resolve leaves visited_urls and
\* url_queue alone, kills nothing and takes the worker on to the next link.
C9_UnresolvableLinkSkipped ==
  [][\A w \in Threads :
       (wk[w].pc = "check" /\ wk[w].absolute_url = NULL /\ wk'[w] # wk[w]) =>
         /\ visited_urls' = visited_urls
         /\ url_queue' = url_queue
         /\ ~crashed'
         /\ wk'[w].pc = "unlock"]_vars

\* C10: with a thread count below 1 no item is popped from url_queue, none is
\* given to the pool and none is fetched.
C10_InvalidCountDispatchesNothing ==
  thread_count < 1 => (item = NoItem /\ handed = << >> /\ fetched = << >>)

\* The start URLs of a command line <start_url1> [<start_url2> ...] [max_threads]:
\* every word but a last word that is a number.
GivenUrls(args) ==
  IF Len(args) > 0 /\ args[Len(args)][1] = "#"
  THEN SubSeq(args, 1, Len(args) - 1)
  ELSE args

\* Its worker count: the last word when it is a number, else 5.
GivenThreads(args) ==
  IF Len(args) > 0 /\ args[Len(args)][1] = "#"
  THEN Atoi(args[Len(args)])
  ELSE DefaultThreads

\* C11: once seeding is over, every start URL of the command line has been
\* pushed at depth 0, in order, and thread_count is max_threads when given
\* and 5 otherwise.
C11_CommandLineSeeded ==
  pc \notin {"main", "exit", "seed"} =>
    /\ Len(pushed) >= Len(GivenUrls(argv))
    /\ \A k \in 1..Len(GivenUrls(argv)) :
         pushed[k].url = GivenUrls(argv)[k] /\ pushed[k].depth = 0
    /\ thread_count = GivenThreads(argv)

\* A status code of the 2xx class.
Is2xx(status) == 200 <= status /\ status < 300

\* The workers whose send has returned and that are still in fetch_url.
PastSend == {w \in Threads : wk[w].pc \notin {"idle", "send", "crashed"}}

\* C12: once the send of a task has returned, the task's URL has been saved
\* exactly when the status is of the 2xx class, and has been reported as
\* failed exactly when it is not.
C12_Every2xxIsSuccess ==
  \A w \in PastSend :
    /\ Is2xx(StatusOf(soup_uri_new(wk[w].item.url))) <=> wk[w].item.url \in Range(saved)
    /\ ~Is2xx(StatusOf(soup_uri_new(wk[w].item.url))) <=> wk[w].item.url \in Range(failed)

\* C13: a worker inside the blocking send does not hold queue_mutex, and a
\* thread that holds it is between its lock and its unlock, where no call
\* blocks: a worker at the membership test, the insert and push, or the
\* unlock (or killed there), the main thread at the pop or the unlock.
C13_NoLockAcrossFetch ==
  /\ \A w \in Threads : wk[w].pc = "send" => queue_mutex # w
  /\ \A w \in Threads :
       queue_mutex = w => wk[w].pc \in {"check", "add", "unlock", "crashed"}
  /\ queue_mutex = MainThread => pc \in {"pop", "dunlock"}

\* One worker is inside the send while another holds the mutex for its push.
C13_Witness ==
  \E v, w \in Threads :
    /\ v # w
    /\ wk[v].pc = "send"
    /\ wk[w].pc = "add"
    /\ queue_mutex = w

\* C14: every step that reads or writes url_queue or visited_urls is taken by
\* the thread that holds queue_mutex: the main thread's emptiness test and
\* pop, a worker's membership test and its insert and push; and the emptiness
\* test is not made while a worker is inside its critical section.
C14_AccessUnderMutex ==
  [][/\ (pc = "test" /\ pc' \in {"dlock", "pool_free"}) => queue_mutex = MainThread
     /\ (pc = "pop" /\ pc' = "dunlock") => queue_mutex = MainThread
     /\ \A w \in Threads :
          (wk[w].pc \in {"check", "add"} /\ wk'[w].pc \in {"add", "unlock"}
             /\ wk'[w].pc # wk[w].pc) => queue_mutex = w
     /\ (pc = "test" /\ pc' \in {"dlock", "pool_free"}) =>
          \A w \in Threads : wk[w].pc \notin {"check", "add"}]_vars

\* C15: every step leaves every URL of url_queue in visited_urls and removes
\* nothing from visited_urls.
C15_QueueWithinVisited ==
  [][UrlsOf(url_queue') \subseteq visited_urls' /\ visited_urls \subseteq visited_urls']_vars

\* The live frontier holds a seed and a discovered URL, the latter queued.
C15_Witness ==
  /\ frontier = "live"
  /\ Cardinality(visited_urls) >= 2
  /\ \E x \in Range(url_queue) : x.depth > 0 /\ x.url \in visited_urls

\* Every UrlItem some thread or queue holds.
ItemsHeld ==
  Range(url_queue) \cup Range(pool_queue) \cup Range(fetched)
    \cup {wk[w].item : w \in Threads} \cup {item}

C17_FifoDispatch ==
  /\ Len(handed) <= Len(pushed)
  /\ \A k \in 1..Len(handed) : handed[k] = pushed[k]
  /\ item # NoItem => (Len(handed) < Len(pushed) /\ item = pushed[Len(handed) + 1])

\* Three items were dispatched, the last one pushed by a worker while earlier
\* items were being processed.
C17_Witness ==
  /\ Len(handed) >= 3
  /\ handed[1].depth = 0
  /\ handed[Len(handed)].depth > 0

\* The fetch_url calls with URL u whose send has returned SOUP_STATUS_OK.
SucceededFetches(u) ==
  {k \in 1..Len(fetched) :
     /\ fetched[k].url = u
     /\ StatusOf(soup_uri_new(u)) = SOUP_STATUS_OK
     /\ \A w \in Threads : ~(wk[w].pc = "send" /\ wk[w].item = fetched[k])}

\* The save_to_file calls with URL u.
Saves(u) == {k \in 1..Len(saved) : saved[k] = u}

C19_BoundaryFetchedNotExtracted ==
  \A w \in Threads :
    (wk[w].item # NoItem /\ wk[w].item.depth = max_depth) =>
      /\ wk[w].pc \in {"send", "free", "crashed"}
      /\ wk[w].item \in Range(fetched)
      /\ (wk[w].pc = "free"
            /\ StatusOf(soup_uri_new(wk[w].item.url)) = SOUP_STATUS_OK) =>
           wk[w].item.url \in Range(saved)

\* The page at depth max_depth was fetched and saved, and the URL its first
\* link resolves to is not in visited_urls.
C19_Witness ==
  \E w \in Threads :
    /\ wk[w].pc = "free"
    /\ wk[w].item.depth = max_depth
    /\ wk[w].item.url \in Range(saved)
    /\ Hrefs(soup_uri_new(wk[w].item.url)) # << >>
    /\ resolve_url(wk[w].item.url, Head(Hrefs(soup_uri_new(wk[w].item.url))))
         \notin visited_urls

\* The workers inside fetch_url.
Processing == {w \in Threads : wk[w].pc \notin {"idle", "crashed"}}

\* C20: at most thread_count tasks are inside fetch_url at a time, and when
\* start_crawler has returned every task given to the pool has been processed
\* to its end.
C20_BoundedAndJoined ==
  /\ Processing # {} => Cardinality(Processing) <= thread_count
  /\ pc = "returned" =>
       /\ pool_queue = << >>
       /\ Processing = {}
       /\ fetched = handed

\* C21: in the step that frees url_queue, visited_urls and queue_mutex, and in
\* every step after it, no worker is inside fetch_url, none starts, nobody
\* holds the mutex, and the queue and the visited set are left as they are.
C21_NoWorkerAfterTeardown ==
  [][(frontier = "freed" \/ frontier' = "freed") =>
       /\ Processing = {}
       /\ Processing' = {}
       /\ wk' = wk
       /\ queue_mutex = NoThread
       /\ queue_mutex' = NoThread
       /\ url_queue' = url_queue
       /\ visited_urls' = visited_urls]_vars

\* The frontier was freed after workers had extracted links: a task found by
\* extract_urls was fetched.
C21_Witness ==
  /\ frontier = "freed"
  /\ \E k \in 1..Len(fetched) : fetched[k].depth > 0

\* s is an initial segment of t.
IsPrefix(s, t) == Len(s) <= Len(t) /\ SubSeq(t, 1, Len(s)) = s

\* C22: the dispatcher's pop finds url_queue non-empty and takes its head, the
\* task it gives to the pool is never NULL, and a step of any other thread
\* only appends to url_queue.
C22_PopNeverEmpty ==
  [][/\ (pc = "pop" /\ pc' = "dunlock") =>
          /\ url_queue # << >>
          /\ item' = Head(url_queue)
          /\ item' # NoItem
     /\ (pc = "push" /\ pc' = "test") =>
          /\ item # NoItem
          /\ handed' = Append(handed, item)
     /\ (pc' = pc \/ crashed') => IsPrefix(url_queue, url_queue')]_vars

\* The dispatcher entered the loop on a test that raced with a worker's push:
\* it waits for the mutex while the queue is still empty.
C22_Witness ==
  /\ pc = "dlock"
  /\ url_queue = << >>
  /\ \E w \in Threads : wk[w].pc = "add" /\ queue_mutex = w

\* The number of places that hold item x while it waits or is processed: the
\* queue, the dispatcher's local, the pool's queue, a worker inside fetch_url.
Holders(x) ==
  Count(url_queue, x) + Count(pool_queue, x)
    + (IF item.id = x.id THEN 1 ELSE 0)
    + Cardinality({w \in Threads : wk[w].item.id = x.id})

\* C23: every UrlItem pushed is one item, is popped and given to the pool at
\* most once and passed to fetch_url at most once; it is held in at most one
\* place at a time, so only one fetch_url can free it, and once fetch_url has
\* freed it nothing holds it.
C23_FetchedAtMostOnce ==
  \A x \in Range(pushed) :
    /\ Count(pushed, x) = 1
    /\ Count(handed, x) <= 1
    /\ Count(fetched, x) <= 1
    /\ Count(fetched, x) <= Count(handed, x)
    /\ Holders(x) <= 1
    /\ Count(handed, x) = 0 => Count(url_queue, x) + (IF item.id = x.id THEN 1 ELSE 0) = 1
    /\ Count(fetched, x) = 1 => Holders(x) = Cardinality({w \in Threads : wk[w].item.id = x.id})

\* Two workers are inside fetch_url at once, each with its own item, after an
\* earlier item was fetched and freed.
C23_Witness ==
  /\ \E v, w \in Threads :
       /\ v # w
       /\ {v, w} \subseteq Processing
       /\ wk[v].item.id # wk[w].item.id
  /\ \E x \in Range(fetched) : Holders(x) = 0

\* The increments thread t has completed.
Done(t) == IF th[t].pc \in {"print", "unlock"} THEN th[t].i + 1 ELSE th[t].i

\* C24: with use_mutex TRUE no increment is lost: shared_counter is at every
\* moment the number of increments the two threads have completed, each
\* thread prints the value it wrote, and after both joins the counter, and
\* the count main prints, is twice the number of iterations.
C24_MutexCountsEveryIncrement ==
  (use_mutex /\ gm_pc # "main") =>
    /\ shared_counter = Done(1) + Done(2)
    /\ \A t \in GThreads : th[t].pc = "unlock" => th[t].shown = th[t].tmp + 1
    /\ gm_pc \in {"print", "exit"} => shared_counter = 2 * Iterations
    /\ gm_pc = "exit" => final = 2 * Iterations

\* The run with the mutex ended and printed the full count.
C24_Witness ==
  /\ use_mutex
  /\ gm_pc = "exit"
  /\ final = 2 * Iterations
  /\ \A t \in GThreads : th[t].pc = "done" /\ th[t].i = Iterations

====
